---- MODULE Spec2Model ----
(***************************************************************************)
(* Model of hdlConvertor/hdlAst/_typeDefs.py: the type nodes of the HDL    *)
(* AST (HdlRange, HdlConstraint, HdlTypeDec, HdlTypeBitsDef, HdlClassDef,  *)
(* HdlEnumDef).                                                            *)
(*                                                                         *)
(* A node is a Python object with __slots__: an attribute exists exactly   *)
(* when it has been assigned.  A node is therefore a function whose DOMAIN *)
(* is the set of slots assigned so far; reading a slot outside the DOMAIN  *)
(* raises AttributeError.  Lists and dicts are objects of their own: a     *)
(* slot holds the address of the container and `heap` holds its content,   *)
(* so that two slots naming one container are visible as such.             *)
(*                                                                         *)
(* The producer (the parser) builds nodes and assigns their attributes     *)
(* (phase "build"); after the hand-off consumers only read (phase "read"). *)
(***************************************************************************)
EXTENDS Integers, Sequences, FiniteSets

VARIABLES
    bits,      \* reference -> HdlTypeBitsDef object, or NoneObj
    ranges,    \* reference -> HdlRange object, or NoneObj
    nodes,     \* reference -> HdlConstraint/HdlTypeDec/HdlClassDef/HdlEnumDef, or NoneObj
    heap,      \* address -> content of the list or dict allocated there
    appended,  \* history: <<reference, slot>> -> what the producer added there, in order
    phase,     \* "build" | "read"
    ret        \* outcome of the consumer's most recent call

vars == <<bits, ranges, nodes, heap, appended, phase, ret>>

\* ------------------------------------------------------------------ bounds

\* msb/lsb of the two vectors that are compared range over -1..MaxBound
MaxBound == 1
\* msb/lsb of the vector whose width() is taken range over -MaxWidthBound..MaxWidthBound
MaxWidthBound == 7
\* items the producer puts into the containers of the nodes, in all
MaxItems == 2
\* members the producer appends to enums, and to the lists of classes, in all
MaxMembers == 3

BoundInputs == (0 - 1)..MaxBound
WidthInputs == (0 - MaxWidthBound)..MaxWidthBound

\* ------------------------------------------------------------- Python values

\* a value that may be None carries its type: None, a reference to a list or dict
\* on the heap, an opaque object (an expression, a subtype, ...), a string
None == [t |-> "None"]
Ref(a) == [t |-> "ref", addr |-> a]
Obj(id) == [t |-> "obj", id |-> id]
Str(s) == [t |-> "str", s |-> s]

\* a reference that is not bound to a node yet
NoneObj == [kind |-> "NoneType"]
NoRet == [op |-> "none"]

\* obj.attr = v on a __slots__ object: the slot exists from now on
setattr(obj, attr, v) ==
    [x \in (DOMAIN obj) \cup {attr} |-> IF x = attr THEN v ELSE obj[x]]

hasattr(obj, attr) == attr \in DOMAIN obj

\* obj.attr: the value, or AttributeError for a slot never assigned
getattr(obj, attr) ==
    IF hasattr(obj, attr)
    THEN [op |-> "getattr", attr |-> attr, val |-> obj[attr]]
    ELSE [op |-> "raise", attr |-> attr, exc |-> "AttributeError"]

\* ------------------------------------------------------------ HdlTypeBitsDef

STD_LOGIC_STATES == 9
WIRE_STATES == 4

BitsRefs == {"self", "other"}
NameInputs == {None, Str("t")}
\* values a producer may assign to .states: the documented ones and one that is not
StatesInputs == {2, 3, WIRE_STATES, STD_LOGIC_STATES}
\* the two state counts the compared vectors are given
CompareStatesInputs == {2, STD_LOGIC_STATES}

lsb_default == 0
signed_default == FALSE

\* a faulty __init__: the vector starts as a 4-state wire
HdlTypeBitsDef_init_wire(msb, lsb, signed) ==
    [kind |-> "HdlTypeBitsDef",
     name |-> None,
     msb |-> msb,
     lsb |-> lsb,
     signed |-> signed,
     is_bigendian |-> FALSE,
     states |-> WIRE_STATES]

\* a faulty __init__: the vector starts with one state per bit
HdlTypeBitsDef_init_onestate(msb, lsb, signed) ==
    [kind |-> "HdlTypeBitsDef",
     name |-> None,
     msb |-> msb,
     lsb |-> lsb,
     signed |-> signed,
     is_bigendian |-> FALSE,
     states |-> 1]

\* HdlTypeBitsDef.__init__(self, msb, lsb=0, signed=False); the base class
\* initialiser leaves the name empty
HdlTypeBitsDef_init(msb, lsb, signed) ==
    [kind |-> "HdlTypeBitsDef",
     name |-> None,
     msb |-> msb,
     lsb |-> lsb,
     signed |-> signed,
     is_bigendian |-> FALSE,
     states |-> 2]

isBits(o) == o.kind = "HdlTypeBitsDef"

\* a faulty width(): the bounds are taken to be ordered
HdlTypeBitsDef_width_ordered(o) == o.msb - o.lsb

HdlTypeBitsDef_width(o) ==
    IF o.msb >= o.lsb
    THEN o.msb - o.lsb
    ELSE o.lsb - o.msb

\* hash() of an int and of a bool (CPython: -1 is reserved for errors)
py_hash_int(n) == IF n = -1 THEN -2 ELSE n
py_hash_bool(b) == IF b THEN 1 ELSE 0

\* hash((msb, lsb, signed, is_bigendian)): a function of the hashes of the items,
\* in order; kept here as the tuple of the items' hashes
HdlTypeBitsDef_hash(o) ==
    <<py_hash_int(o.msb), py_hash_int(o.lsb),
      py_hash_bool(o.signed), py_hash_bool(o.is_bigendian)>>

\* a faulty __eq__: the state count takes part in the comparison
HdlTypeBitsDef_eq_states(o, other) ==
    /\ other.kind = "HdlTypeBitsDef"
    /\ o.msb = other.msb
    /\ o.lsb = other.lsb
    /\ o.signed = other.signed
    /\ o.is_bigendian = other.is_bigendian
    /\ o.states = other.states

HdlTypeBitsDef_eq(o, other) ==
    /\ isBits(other)
    /\ o.msb = other.msb
    /\ o.lsb = other.lsb
    /\ o.signed = other.signed
    /\ o.is_bigendian = other.is_bigendian

\* r = HdlTypeBitsDef(msb)
HdlTypeBitsDef_new1(r, msb) ==
    /\ phase = "build"
    /\ bits[r] = NoneObj
    /\ bits' = [bits EXCEPT ![r] = HdlTypeBitsDef_init(msb, lsb_default, signed_default)]
    /\ UNCHANGED <<ranges, nodes, heap, appended, phase, ret>>

\* r = HdlTypeBitsDef(msb, lsb, signed)
HdlTypeBitsDef_new3(r, msb, lsb, signed) ==
    /\ phase = "build"
    /\ bits[r] = NoneObj
    /\ bits' = [bits EXCEPT ![r] = HdlTypeBitsDef_init(msb, lsb, signed)]
    /\ UNCHANGED <<ranges, nodes, heap, appended, phase, ret>>

\* r.is_bigendian = v
HdlTypeBitsDef_set_is_bigendian(r, v) ==
    /\ phase = "build"
    /\ isBits(bits[r])
    /\ bits' = [bits EXCEPT ![r] = setattr(bits[r], "is_bigendian", v)]
    /\ UNCHANGED <<ranges, nodes, heap, appended, phase, ret>>

\* r.states = v
HdlTypeBitsDef_set_states(r, v) ==
    /\ phase = "build"
    /\ isBits(bits[r])
    /\ bits' = [bits EXCEPT ![r] = setattr(bits[r], "states", v)]
    /\ UNCHANGED <<ranges, nodes, heap, appended, phase, ret>>

\* r.name = v
HdlTypeBitsDef_set_name(r, v) ==
    /\ phase = "build"
    /\ isBits(bits[r])
    /\ bits' = [bits EXCEPT ![r] = setattr(bits[r], "name", v)]
    /\ UNCHANGED <<ranges, nodes, heap, appended, phase, ret>>

\* the producer hands the tree to the consumers
handoff ==
    /\ phase = "build"
    /\ phase' = "read"
    /\ UNCHANGED <<bits, ranges, nodes, heap, appended, ret>>

\* r.width()
HdlTypeBitsDef_width_call(r) ==
    /\ phase = "read"
    /\ isBits(bits[r])
    /\ ret' = [op |-> "width", self |-> r, val |-> HdlTypeBitsDef_width(bits[r])]
    /\ UNCHANGED <<bits, ranges, nodes, heap, appended, phase>>

\* a == b
HdlTypeBitsDef_eq_call(a, b) ==
    /\ phase = "read"
    /\ isBits(bits[a])
    /\ ret' = [op |-> "eq", self |-> a, other |-> b,
               val |-> HdlTypeBitsDef_eq(bits[a], bits[b])]
    /\ UNCHANGED <<bits, ranges, nodes, heap, appended, phase>>

\* hash(a), hash(b)
HdlTypeBitsDef_hash_call(a, b) ==
    /\ phase = "read"
    /\ a # b
    /\ isBits(bits[a])
    /\ isBits(bits[b])
    /\ ret' = [op |-> "hash", self |-> a, other |-> b,
               val |-> <<HdlTypeBitsDef_hash(bits[a]), HdlTypeBitsDef_hash(bits[b])>>]
    /\ UNCHANGED <<bits, ranges, nodes, heap, appended, phase>>

\* ------------------------------------------------------------------ HdlRange

RangeRefs == {"r1", "r2"}
AltInputs == {None, Obj("x"), Obj("y")}
RangeSlots == {"subtype", "range", "attribute"}

subtype_default == None
rng_default == None
attribute_default == None

\* a faulty __init__: the simple range lands in the subtype slot
HdlRange_init_swapped(subtype, rng, attribute) ==
    [kind |-> "HdlRange",
     subtype |-> rng,
     range |-> subtype,
     attribute |-> attribute]

\* HdlRange.__init__(self, subtype=None, rng=None, attribute=None)
HdlRange_init(subtype, rng, attribute) ==
    [kind |-> "HdlRange",
     subtype |-> subtype,
     range |-> rng,
     attribute |-> attribute]

isRange(o) == o.kind = "HdlRange"

\* r = HdlRange()
HdlRange_new0(r) ==
    /\ phase = "build"
    /\ ranges[r] = NoneObj
    /\ ranges' = [ranges EXCEPT ![r] =
                     HdlRange_init(subtype_default, rng_default, attribute_default)]
    /\ UNCHANGED <<bits, nodes, heap, appended, phase, ret>>

\* r = HdlRange(subtype, rng, attribute)
HdlRange_new3(r, subtype, rng, attribute) ==
    /\ phase = "build"
    /\ ranges[r] = NoneObj
    /\ ranges' = [ranges EXCEPT ![r] = HdlRange_init(subtype, rng, attribute)]
    /\ UNCHANGED <<bits, nodes, heap, appended, phase, ret>>

\* r.<slot> = v
HdlRange_set(r, slot, v) ==
    /\ phase = "build"
    /\ isRange(ranges[r])
    /\ ranges' = [ranges EXCEPT ![r] = setattr(ranges[r], slot, v)]
    /\ UNCHANGED <<bits, nodes, heap, appended, phase, ret>>

\* the alternatives of a range that are populated
populated(o) == {s \in RangeSlots : o[s] # None}

\* ------------------------------------------------------------ lists and dicts

NodeRefs == {"n1", "n2"}
\* objects a producer puts into a list: parents, members, index constraints
Members == {"m1", "m2"}
\* dict keys (identifiers, field names) and the objects stored under them
Keys == {"k1", "k2"}
Vals == {"v1", "v2"}
\* enum members: a bare name "RED" is <<"RED">>, a pair ("BLUE", 5) is <<"BLUE", 5>>
EnumMembers == {<<"RED">>, <<"GREEN">>, <<"BLUE", 5>>}

\* the slots that may hold a list whose items the producer appends
ListSlotNames == {"indexes", "parents", "private", "public", "protected", "values"}

\* [] or {} evaluated in a constructor: a new object at an address of its own
alloc(h) == Len(h) + 1

\* l.append(x)
list_append(l, x) == Append(l, x)

\* d[k] = v on an insertion-ordered dict, kept as the sequence of its <<key, value>>
dict_setitem(d, k, v) ==
    IF \E i \in 1..Len(d) : d[i][1] = k
    THEN [i \in 1..Len(d) |-> IF d[i][1] = k THEN <<k, v>> ELSE d[i]]
    ELSE Append(d, <<k, v>>)

\* the number of items in the containers at addresses 1..i
RECURSIVE items_upto(_, _)
items_upto(h, i) == IF i = 0 THEN 0 ELSE Len(h[i]) + items_upto(h, i - 1)
items(h) == items_upto(h, Len(h))

\* ------------------------------------------------------------- HdlConstraint

HdlConstraint_slots == {"range", "indexes", "element", "field_cons"}

\* HdlConstraint.__init__(self): the object and the heap with its two containers
HdlConstraint_init(h) ==
    LET a_indexes == alloc(h)
        h1 == Append(h, <<>>)
        a_field_cons == alloc(h1)
        h2 == Append(h1, <<>>)
    IN [obj |-> [kind |-> "HdlConstraint",
                 range |-> None,
                 indexes |-> Ref(a_indexes),
                 element |-> None,
                 field_cons |-> Ref(a_field_cons)],
        heap |-> h2]

\* ---------------------------------------------------------------- HdlTypeDec

HdlTypeDec_slots ==
    {"name", "subtype", "ids", "base_type", "isUnion", "indexes", "elem_type", "fields"}

\* a faulty __init__: indexes starts as an empty list, as in HdlConstraint
HdlTypeDec_init_indexes_list(h) ==
    LET a_ids == alloc(h)
        h1 == Append(h, <<>>)
        a_indexes == alloc(h1)
        h2 == Append(h1, <<>>)
        a_fields == alloc(h2)
        h3 == Append(h2, <<>>)
    IN [obj |-> [kind |-> "HdlTypeDec",
                 name |-> None,
                 subtype |-> None,
                 ids |-> Ref(a_ids),
                 base_type |-> None,
                 isUnion |-> FALSE,
                 indexes |-> Ref(a_indexes),
                 elem_type |-> None,
                 fields |-> Ref(a_fields)],
        heap |-> h3]

\* a faulty __init__: fields is the dict of ids
HdlTypeDec_init_fields_is_ids(h) ==
    LET a_ids == alloc(h)
        h1 == Append(h, <<>>)
    IN [obj |-> [kind |-> "HdlTypeDec",
                 name |-> None,
                 subtype |-> None,
                 ids |-> Ref(a_ids),
                 base_type |-> None,
                 isUnion |-> FALSE,
                 indexes |-> None,
                 elem_type |-> None,
                 fields |-> Ref(a_ids)],
        heap |-> h1]

\* HdlTypeDec.__init__(self)
HdlTypeDec_init(h) ==
    LET a_ids == alloc(h)
        h1 == Append(h, <<>>)
        a_fields == alloc(h1)
        h2 == Append(h1, <<>>)
    IN [obj |-> [kind |-> "HdlTypeDec",
                 name |-> None,
                 subtype |-> None,
                 ids |-> Ref(a_ids),
                 base_type |-> None,
                 isUnion |-> FALSE,
                 indexes |-> None,
                 elem_type |-> None,
                 fields |-> Ref(a_fields)],
        heap |-> h2]

\* --------------------------------------------------------------- HdlClassDef

HdlClassDef_slots ==
    {"name", "parents", "is_virtual", "is_static", "is_struct", "is_union",
     "is_interface", "private", "public", "protected"}
HdlClassDef_flags == {"is_virtual", "is_static", "is_struct", "is_union", "is_interface"}
HdlClassDef_partitions == {"private", "public", "protected"}
HdlClassDef_lists == {"parents"} \cup HdlClassDef_partitions

\* a faulty __init__: protected is the list of public
HdlClassDef_init_protected_is_public(h) ==
    LET a_parents == alloc(h)
        h1 == Append(h, <<>>)
        a_private == alloc(h1)
        h2 == Append(h1, <<>>)
        a_public == alloc(h2)
        h3 == Append(h2, <<>>)
    IN [obj |-> [kind |-> "HdlClassDef",
                 name |-> None,
                 parents |-> Ref(a_parents),
                 is_virtual |-> FALSE,
                 is_static |-> FALSE,
                 is_struct |-> FALSE,
                 is_union |-> FALSE,
                 private |-> Ref(a_private),
                 public |-> Ref(a_public),
                 protected |-> Ref(a_public)],
        heap |-> h3]

\* HdlClassDef.__init__(self): is_interface is a slot that is not assigned
HdlClassDef_init(h) ==
    LET a_parents == alloc(h)
        h1 == Append(h, <<>>)
        a_private == alloc(h1)
        h2 == Append(h1, <<>>)
        a_public == alloc(h2)
        h3 == Append(h2, <<>>)
        a_protected == alloc(h3)
        h4 == Append(h3, <<>>)
    IN [obj |-> [kind |-> "HdlClassDef",
                 name |-> None,
                 parents |-> Ref(a_parents),
                 is_virtual |-> FALSE,
                 is_static |-> FALSE,
                 is_struct |-> FALSE,
                 is_union |-> FALSE,
                 private |-> Ref(a_private),
                 public |-> Ref(a_public),
                 protected |-> Ref(a_protected)],
        heap |-> h4]

\* ---------------------------------------------------------------- HdlEnumDef

HdlEnumDef_slots == {"name", "values"}

\* a faulty __init__: values is one list shared by all enums (a class-level default)
HdlEnumDef_init_shared_values(h) ==
    IF Len(h) > 0
    THEN [obj |-> [kind |-> "HdlEnumDef", name |-> None, values |-> Ref(1)],
          heap |-> h]
    ELSE [obj |-> [kind |-> "HdlEnumDef", name |-> None, values |-> Ref(alloc(h))],
          heap |-> Append(h, <<>>)]

\* HdlEnumDef.__init__(self)
HdlEnumDef_init(h) ==
    LET a_values == alloc(h)
        h1 == Append(h, <<>>)
    IN [obj |-> [kind |-> "HdlEnumDef",
                 name |-> None,
                 values |-> Ref(a_values)],
        heap |-> h1]

\* ------------------------------------------------------- the nodes' operations

isNode(o, kind) == o.kind = kind

\* the slots of a node that hold a list or a dict at present
container_slots(o) ==
    IF isNode(o, "HdlConstraint") THEN {"indexes", "field_cons"}
    ELSE IF isNode(o, "HdlTypeDec")
         THEN {"ids", "fields"} \cup (IF o.indexes = None THEN {} ELSE {"indexes"})
    ELSE IF isNode(o, "HdlClassDef") THEN HdlClassDef_lists
    ELSE IF isNode(o, "HdlEnumDef") THEN {"values"}
    ELSE {}

\* the content of the container a slot refers to
content(nds, h, n, slot) == h[nds[n][slot].addr]

\* n = HdlConstraint()
HdlConstraint_new(n) ==
    /\ phase = "build"
    /\ nodes[n] = NoneObj
    /\ LET r == HdlConstraint_init(heap)
       IN /\ nodes' = [nodes EXCEPT ![n] = r.obj]
          /\ heap' = r.heap
    /\ UNCHANGED <<bits, ranges, appended, phase, ret>>

\* n = HdlTypeDec()
HdlTypeDec_new(n) ==
    /\ phase = "build"
    /\ nodes[n] = NoneObj
    /\ LET r == HdlTypeDec_init(heap)
       IN /\ nodes' = [nodes EXCEPT ![n] = r.obj]
          /\ heap' = r.heap
    /\ UNCHANGED <<bits, ranges, appended, phase, ret>>

\* n = HdlClassDef()
HdlClassDef_new(n) ==
    /\ phase = "build"
    /\ nodes[n] = NoneObj
    /\ LET r == HdlClassDef_init(heap)
       IN /\ nodes' = [nodes EXCEPT ![n] = r.obj]
          /\ heap' = r.heap
    /\ UNCHANGED <<bits, ranges, appended, phase, ret>>

\* n = HdlEnumDef()
HdlEnumDef_new(n) ==
    /\ phase = "build"
    /\ nodes[n] = NoneObj
    /\ LET r == HdlEnumDef_init(heap)
       IN /\ nodes' = [nodes EXCEPT ![n] = r.obj]
          /\ heap' = r.heap
    /\ UNCHANGED <<bits, ranges, appended, phase, ret>>

\* n.<slot>.append(m), for at most `bound` items in all
append_item(n, slot, m, bound) ==
    /\ phase = "build"
    /\ items(heap) < bound
    /\ heap' = [heap EXCEPT ![nodes[n][slot].addr] = list_append(@, m)]
    /\ appended' = [appended EXCEPT ![<<n, slot>>] = Append(@, m)]
    /\ UNCHANGED <<bits, ranges, nodes, phase, ret>>

\* n.<slot>[k] = v, for at most `bound` items in all
set_item(n, slot, k, v, bound) ==
    /\ phase = "build"
    /\ items(heap) < bound
    /\ heap' = [heap EXCEPT ![nodes[n][slot].addr] = dict_setitem(@, k, v)]
    /\ UNCHANGED <<bits, ranges, nodes, appended, phase, ret>>

\* n.values.append(m)
HdlEnumDef_values_append(n, m, bound) ==
    /\ isNode(nodes[n], "HdlEnumDef")
    /\ append_item(n, "values", m, bound)

\* n.parents.append(m), n.public.append(m), ...
HdlClassDef_append(n, slot, m, bound) ==
    /\ isNode(nodes[n], "HdlClassDef")
    /\ append_item(n, slot, m, bound)

\* n.is_virtual = v, n.is_interface = v, ...
HdlClassDef_set_flag(n, flag, v) ==
    /\ phase = "build"
    /\ isNode(nodes[n], "HdlClassDef")
    /\ nodes' = [nodes EXCEPT ![n] = setattr(nodes[n], flag, v)]
    /\ UNCHANGED <<bits, ranges, heap, appended, phase, ret>>

\* n.indexes.append(m)
HdlConstraint_indexes_append(n, m, bound) ==
    /\ isNode(nodes[n], "HdlConstraint")
    /\ append_item(n, "indexes", m, bound)

\* n.field_cons[k] = v
HdlConstraint_field_cons_set(n, k, v, bound) ==
    /\ isNode(nodes[n], "HdlConstraint")
    /\ set_item(n, "field_cons", k, v, bound)

\* n.subtype = v, n.base_type = v, n.elem_type = v
HdlTypeDec_set(n, slot, v) ==
    /\ phase = "build"
    /\ isNode(nodes[n], "HdlTypeDec")
    /\ nodes' = [nodes EXCEPT ![n] = setattr(nodes[n], slot, v)]
    /\ UNCHANGED <<bits, ranges, heap, appended, phase, ret>>

\* n.isUnion = v
HdlTypeDec_set_isUnion(n, v) ==
    /\ phase = "build"
    /\ isNode(nodes[n], "HdlTypeDec")
    /\ nodes' = [nodes EXCEPT ![n] = setattr(nodes[n], "isUnion", v)]
    /\ UNCHANGED <<bits, ranges, heap, appended, phase, ret>>

\* n.indexes = []
HdlTypeDec_set_indexes(n) ==
    /\ phase = "build"
    /\ isNode(nodes[n], "HdlTypeDec")
    /\ nodes[n].indexes = None
    /\ nodes' = [nodes EXCEPT ![n] = setattr(nodes[n], "indexes", Ref(alloc(heap)))]
    /\ heap' = Append(heap, <<>>)
    /\ UNCHANGED <<bits, ranges, appended, phase, ret>>

\* n.indexes.append(m)
HdlTypeDec_indexes_append(n, m, bound) ==
    /\ isNode(nodes[n], "HdlTypeDec")
    /\ nodes[n].indexes # None
    /\ append_item(n, "indexes", m, bound)

\* n.ids[k] = v, n.fields[k] = v
HdlTypeDec_dict_set(n, slot, k, v, bound) ==
    /\ isNode(nodes[n], "HdlTypeDec")
    /\ set_item(n, slot, k, v, bound)

\* a consumer reads n.<attr>
node_getattr(n, attr) ==
    /\ phase = "read"
    /\ nodes[n] # NoneObj
    /\ ret' = getattr(nodes[n], attr)
    /\ UNCHANGED <<bits, ranges, nodes, heap, appended, phase>>

\* ------------------------------------------------------------ specifications

InitAll ==
    /\ bits = [r \in BitsRefs |-> NoneObj]
    /\ ranges = [r \in RangeRefs |-> NoneObj]
    /\ nodes = [n \in NodeRefs |-> NoneObj]
    /\ heap = <<>>
    /\ appended = [p \in NodeRefs \X ListSlotNames |-> <<>>]
    /\ phase = "build"
    /\ ret = NoRet

\* one vector: construction, assignments, width()
NextVector ==
    \/ \E msb \in WidthInputs : HdlTypeBitsDef_new1("self", msb)
    \/ \E msb \in WidthInputs, lsb \in WidthInputs, signed \in BOOLEAN :
           HdlTypeBitsDef_new3("self", msb, lsb, signed)
    \/ \E v \in BOOLEAN : HdlTypeBitsDef_set_is_bigendian("self", v)
    \/ \E v \in StatesInputs : HdlTypeBitsDef_set_states("self", v)
    \/ handoff
    \/ HdlTypeBitsDef_width_call("self")

SpecVector == InitAll /\ [][NextVector]_vars

\* two vectors, compared
NextCompare ==
    \/ \E r \in BitsRefs, msb \in BoundInputs : HdlTypeBitsDef_new1(r, msb)
    \/ \E r \in BitsRefs, msb \in BoundInputs, lsb \in BoundInputs, signed \in BOOLEAN :
           HdlTypeBitsDef_new3(r, msb, lsb, signed)
    \/ \E r \in BitsRefs, v \in BOOLEAN : HdlTypeBitsDef_set_is_bigendian(r, v)
    \/ \E r \in BitsRefs, v \in CompareStatesInputs : HdlTypeBitsDef_set_states(r, v)
    \/ \E r \in BitsRefs, v \in NameInputs : HdlTypeBitsDef_set_name(r, v)
    \/ handoff
    \/ \E a \in BitsRefs, b \in BitsRefs : HdlTypeBitsDef_eq_call(a, b)
    \/ HdlTypeBitsDef_hash_call("self", "other")

SpecCompare == InitAll /\ [][NextCompare]_vars

\* ranges
NextRange ==
    \/ \E r \in RangeRefs : HdlRange_new0(r)
    \/ \E r \in RangeRefs, s \in AltInputs, g \in AltInputs, a \in AltInputs :
           HdlRange_new3(r, s, g, a)
    \/ \E r \in RangeRefs, slot \in RangeSlots, v \in AltInputs : HdlRange_set(r, slot, v)
    \/ handoff

SpecRange == InitAll /\ [][NextRange]_vars

\* a class: construction, flags, members, reads
NextClass ==
    \/ HdlClassDef_new("n1")
    \/ \E f \in HdlClassDef_flags, v \in BOOLEAN : HdlClassDef_set_flag("n1", f, v)
    \/ \E slot \in HdlClassDef_lists, m \in Members :
           HdlClassDef_append("n1", slot, m, MaxItems)
    \/ handoff
    \/ \E attr \in HdlClassDef_slots : node_getattr("n1", attr)

SpecClass == InitAll /\ [][NextClass]_vars

\* classes and their lists
NextPartitions ==
    \/ \E n \in NodeRefs : HdlClassDef_new(n)
    \/ \E n \in NodeRefs, slot \in HdlClassDef_lists, m \in Members :
           HdlClassDef_append(n, slot, m, MaxMembers)

SpecPartitions == InitAll /\ [][NextPartitions]_vars

\* enums and their members
NextEnum ==
    \/ \E n \in NodeRefs : HdlEnumDef_new(n)
    \/ \E n \in NodeRefs, m \in EnumMembers : HdlEnumDef_values_append(n, m, MaxMembers)

SpecEnum == InitAll /\ [][NextEnum]_vars

\* two nodes of any kinds and their containers
NextNodes ==
    \/ \E n \in NodeRefs : HdlConstraint_new(n)
    \/ \E n \in NodeRefs : HdlTypeDec_new(n)
    \/ \E n \in NodeRefs : HdlClassDef_new(n)
    \/ \E n \in NodeRefs : HdlEnumDef_new(n)
    \/ \E n \in NodeRefs, m \in Members : HdlConstraint_indexes_append(n, m, MaxItems)
    \/ \E n \in NodeRefs, k \in Keys, v \in Vals :
           HdlConstraint_field_cons_set(n, k, v, MaxItems)
    \/ \E n \in NodeRefs : HdlTypeDec_set_indexes(n)
    \/ \E n \in NodeRefs, m \in Members : HdlTypeDec_indexes_append(n, m, MaxItems)
    \/ \E n \in NodeRefs, slot \in {"ids", "fields"}, k \in Keys, v \in Vals :
           HdlTypeDec_dict_set(n, slot, k, v, MaxItems)
    \/ \E n \in NodeRefs, slot \in HdlClassDef_lists, m \in Members :
           HdlClassDef_append(n, slot, m, MaxItems)
    \/ \E n \in NodeRefs, m \in EnumMembers : HdlEnumDef_values_append(n, m, MaxItems)

SpecNodes == InitAll /\ [][NextNodes]_vars

\* a type declaration: construction, every assignment, reads
NextTypeDec ==
    \/ HdlTypeDec_new("n1")
    \/ \E slot \in {"subtype", "base_type", "elem_type"}, v \in AltInputs :
           HdlTypeDec_set("n1", slot, v)
    \/ \E v \in BOOLEAN : HdlTypeDec_set_isUnion("n1", v)
    \/ HdlTypeDec_set_indexes("n1")
    \/ \E m \in Members : HdlTypeDec_indexes_append("n1", m, MaxItems)
    \/ \E slot \in {"ids", "fields"}, k \in Keys, v \in Vals :
           HdlTypeDec_dict_set("n1", slot, k, v, MaxItems)
    \/ handoff
    \/ \E attr \in HdlTypeDec_slots : node_getattr("n1", attr)

SpecTypeDec == InitAll /\ [][NextTypeDec]_vars

\* ---------------------------------------------------------------- properties

Abs(n) == IF n >= 0 THEN n ELSE 0 - n

\* the four attributes __eq__ and __hash__ read
key(o) == <<o.msb, o.lsb, o.signed, o.is_bigendian>>

\* C1: width() returns |msb - lsb|: the same value with the bounds exchanged,
\* never negative, whatever signed, is_bigendian and states are.
C1_width_is_distance ==
    ret.op = "width" =>
        LET o == bits[ret.self] IN
        /\ ret.val = Abs(o.msb - o.lsb)
        /\ ret.val = Abs(o.lsb - o.msb)
        /\ ret.val >= 0
        /\ HdlTypeBitsDef_width([o EXCEPT !.msb = o.lsb, !.lsb = o.msb]) = ret.val
        /\ \A sg \in BOOLEAN, be \in BOOLEAN, st \in StatesInputs :
               HdlTypeBitsDef_width(
                   [o EXCEPT !.signed = sg, !.is_bigendian = be, !.states = st]) = ret.val

\* width() was called on the vector msb=0, lsb=7 (signed, big-endian, 9 states)
C1_witness ==
    /\ ret.op = "width"
    /\ bits[ret.self].msb = 0
    /\ bits[ret.self].lsb = 7
    /\ bits[ret.self].signed
    /\ bits[ret.self].is_bigendian
    /\ bits[ret.self].states = STD_LOGIC_STATES
    /\ ret.val = 7

\* C2: a == b exactly when (msb, lsb, signed, is_bigendian) agree, whatever the
\* states and names are, and vectors that agree on the four hash equally.
C2_eq_hash_on_key ==
    /\ ret.op = "eq" =>
           (ret.val <=> (isBits(bits[ret.other])
                         /\ key(bits[ret.self]) = key(bits[ret.other])))
    /\ (ret.op = "hash" /\ key(bits[ret.self]) = key(bits[ret.other])) =>
           ret.val[1] = ret.val[2]

\* two distinct vectors with different states and names compared equal
C2_witness ==
    /\ ret.op = "eq"
    /\ ret.self # ret.other
    /\ ret.val
    /\ isBits(bits[ret.other])
    /\ bits[ret.self].states # bits[ret.other].states
    /\ bits[ret.self].name # bits[ret.other].name
    /\ bits[ret.self].msb = -1

\* C3: HdlTypeBitsDef(msb) stores msb, lsb 0, signed false; HdlTypeBitsDef(msb,
\* lsb, signed) stores the three as given; both start with is_bigendian false
\* and states 2.
C3_constructor_defaults ==
    [][/\ \A m \in WidthInputs :
              HdlTypeBitsDef_new1("self", m) =>
                  /\ bits'["self"].msb = m
                  /\ bits'["self"].lsb = 0
                  /\ bits'["self"].signed = FALSE
                  /\ bits'["self"].is_bigendian = FALSE
                  /\ bits'["self"].states = 2
       /\ \A m \in WidthInputs, l \in WidthInputs, sg \in BOOLEAN :
              HdlTypeBitsDef_new3("self", m, l, sg) =>
                  /\ bits'["self"].msb = m
                  /\ bits'["self"].lsb = l
                  /\ bits'["self"].signed = sg
                  /\ bits'["self"].is_bigendian = FALSE
                  /\ bits'["self"].states = 2]_vars

\* a vector as HdlTypeBitsDef(7) leaves it
C3_witness ==
    /\ isBits(bits["self"])
    /\ bits["self"].msb = 7
    /\ bits["self"].lsb = 0
    /\ ~bits["self"].signed
    /\ ~bits["self"].is_bigendian
    /\ bits["self"].states = 2

\* C4 as claimed: every HdlRange has exactly one alternative populated.
C4_exactly_one_alternative ==
    \A r \in RangeRefs :
        isRange(ranges[r]) => Cardinality(populated(ranges[r])) = 1

\* C4 as amended: an HdlRange holds what the producer gave it.  HdlRange()
\* populates nothing, HdlRange(subtype, rng, attribute) populates exactly the
\* alternatives passed as non-None, and an assignment changes the assigned
\* alternative only; nothing is rejected.
C4_range_holds_what_was_given ==
    [][\A r \in RangeRefs :
          /\ HdlRange_new0(r) => populated(ranges'[r]) = {}
          /\ \A s \in AltInputs, g \in AltInputs, a \in AltInputs :
                 HdlRange_new3(r, s, g, a) =>
                     /\ ranges'[r].subtype = s
                     /\ ranges'[r].range = g
                     /\ ranges'[r].attribute = a
          /\ \A slot \in RangeSlots, v \in AltInputs :
                 HdlRange_set(r, slot, v) =>
                     /\ ranges'[r][slot] = v
                     /\ \A o \in RangeSlots \ {slot} : ranges'[r][o] = ranges[r][o]]_vars

\* one range built with the simple range alone, one built from nothing
C4_witness ==
    /\ isRange(ranges["r1"])
    /\ ranges["r1"].range = Obj("x")
    /\ populated(ranges["r1"]) = {"range"}
    /\ isRange(ranges["r2"])
    /\ populated(ranges["r2"]) = {}

ValidStates == {2, WIRE_STATES, STD_LOGIC_STATES}

\* C5 as claimed: the states of every HdlTypeBitsDef is 2, 4 or 9.
C5_states_always_valid ==
    \A r \in BitsRefs : isBits(bits[r]) => bits[r].states \in ValidStates

\* C5 as amended: states is 2 at construction and afterwards the value last
\* assigned, which is not checked: it leaves {2, 4, 9} only by the assignment
\* of a value outside {2, 4, 9}, and changes only by an assignment.
C5_states_valid_unless_assigned ==
    [][\A r \in BitsRefs :
          /\ (~isBits(bits[r]) /\ isBits(bits'[r])) => bits'[r].states = 2
          /\ (isBits(bits[r]) /\ bits'[r].states # bits[r].states) =>
                 \E v \in StatesInputs :
                     /\ HdlTypeBitsDef_set_states(r, v)
                     /\ bits'[r].states = v
          /\ (isBits(bits[r]) /\ bits[r].states \in ValidStates
                 /\ bits'[r].states \notin ValidStates) =>
                 \E v \in StatesInputs \ ValidStates : HdlTypeBitsDef_set_states(r, v)]_vars

\* a vector that was made a wire, then a std_logic
C5_witness ==
    /\ isBits(bits["self"])
    /\ bits["self"].states = STD_LOGIC_STATES
    /\ bits["self"].is_bigendian
    /\ phase = "read"

\* C6 as claimed: an HdlClassDef has each of its five flags defined, false at
\* construction and a boolean ever after; parents and the three partitions are
\* empty at construction; reading an attribute never fails.
C6_class_exposes_all_attributes ==
    [][/\ \A n \in NodeRefs :
              /\ HdlClassDef_new(n) =>
                     /\ \A f \in HdlClassDef_flags :
                            hasattr(nodes'[n], f) /\ nodes'[n][f] = FALSE
                     /\ \A l \in HdlClassDef_lists :
                            hasattr(nodes'[n], l) /\ content(nodes', heap', n, l) = <<>>
              /\ isNode(nodes'[n], "HdlClassDef") =>
                     \A f \in HdlClassDef_flags :
                         hasattr(nodes'[n], f) /\ nodes'[n][f] \in BOOLEAN
       /\ ret'.op # "raise"]_vars

\* C7: the values of an HdlEnumDef are the members appended to it, each as
\* given, in the order of the appends.
C7_enum_values_in_append_order ==
    \A n \in NodeRefs :
        isNode(nodes[n], "HdlEnumDef") =>
            content(nodes, heap, n, "values") = appended[<<n, "values">>]

\* RED, GREEN, (BLUE, 5) were appended to one enum beside another, empty one
C7_witness ==
    /\ isNode(nodes["n1"], "HdlEnumDef")
    /\ isNode(nodes["n2"], "HdlEnumDef")
    /\ content(nodes, heap, "n2", "values") = <<<<"RED">>, <<"GREEN">>, <<"BLUE", 5>>>>
    /\ content(nodes, heap, "n1", "values") = <<>>

all_container_slots(nds) ==
    {p \in NodeRefs \X (ListSlotNames \cup {"field_cons", "ids", "fields"}) :
        p[2] \in container_slots(nds[p[1]])}

\* C9: no two container slots, of one node or of two, name the same list or
\* dict: a step that changes the content of one leaves every other unchanged.
C9_containers_not_shared ==
    [][LET before == all_container_slots(nodes)
           after == all_container_slots(nodes')
           changed == {p \in before \cap after :
                          content(nodes', heap', p[1], p[2])
                              # content(nodes, heap, p[1], p[2])}
       IN /\ \A p \in changed, q \in changed : p = q
          /\ \A p \in after, q \in after :
                 p # q => nodes'[p[1]][p[2]].addr # nodes'[q[1]][q[2]].addr]_vars

\* a class with a public member beside a type declaration with a field
C9_witness ==
    /\ isNode(nodes["n1"], "HdlClassDef")
    /\ content(nodes, heap, "n1", "public") = <<"m1">>
    /\ isNode(nodes["n2"], "HdlTypeDec")
    /\ content(nodes, heap, "n2", "fields") = <<<<"k1", "v1">>>>
    /\ content(nodes, heap, "n2", "ids") = <<>>

\* C10: an HdlTypeDec starts with no shape populated, and then every assignment
\* is stored as given, whatever else is populated; no read raises.
C10_typedec_shapes_unchecked ==
    [][/\ HdlTypeDec_new("n1") =>
              /\ \A a \in {"subtype", "base_type", "indexes", "elem_type"} :
                     nodes'["n1"][a] = None
              /\ nodes'["n1"].isUnion = FALSE
              /\ content(nodes', heap', "n1", "ids") = <<>>
              /\ content(nodes', heap', "n1", "fields") = <<>>
       /\ \A slot \in {"subtype", "base_type", "elem_type"}, v \in AltInputs :
              HdlTypeDec_set("n1", slot, v) =>
                  /\ nodes'["n1"][slot] = v
                  /\ \A o \in HdlTypeDec_slots \ {slot} : nodes'["n1"][o] = nodes["n1"][o]
                  /\ heap' = heap
       /\ \A slot \in {"ids", "fields"}, k \in Keys, v \in Vals :
              HdlTypeDec_dict_set("n1", slot, k, v, MaxItems) =>
                  /\ \E i \in 1..Len(content(nodes', heap', "n1", slot)) :
                         content(nodes', heap', "n1", slot)[i] = <<k, v>>
                  /\ nodes' = nodes
       /\ ret'.op # "raise"]_vars

\* a declaration with a subtype and a field at once, read by a consumer
C10_witness ==
    /\ isNode(nodes["n1"], "HdlTypeDec")
    /\ nodes["n1"].subtype = Obj("x")
    /\ content(nodes, heap, "n1", "fields") = <<<<"k1", "v1">>>>
    /\ nodes["n1"].isUnion
    /\ ret.op = "getattr"
    /\ ret.attr = "subtype"

====
